---- MODULE Spec2Model ----
(***************************************************************************)
(* State-machine model of the directory-partitioned speed dial store of    *)
(* speeddial1000nos5dir.c: the global SpeedDialManager, its lifecycle      *)
(* (initializeSpeedDialManager / freeSpeedDialManager) and the entry       *)
(* operations addNumber, getPhoneNumber, removeNumber and the listings.    *)
(*                                                                         *)
(* C strings are sequences of characters; strcmp(x, y) == 0 is equality of *)
(* sequences.  Array indices are 1-based here (0-based in the source), and *)
(* the "not found" index -1 of the source is 0 here.                       *)
(*                                                                         *)
(* The field entries of a directory holds slots 0 .. currentCount-1 of the *)
(* malloc'ed array.  Slots from currentCount on keep stale or              *)
(* indeterminate bytes; every loop of the source is bounded by             *)
(* currentCount, so no function reads them and they are not state.         *)
(***************************************************************************)
EXTENDS Integers, Sequences, FiniteSets, TLC

(* ---- program constants, scaled down from lines 7-13 of the source ---- *)
\* #define MAX_DIRECTORIES 5
MAX_DIRECTORIES == 2
\* #define MAX_CODE_LENGTH 50: the buffer holds MAX_CODE_LENGTH - 1 characters
MAX_CODE_LENGTH == 2
\* #define MAX_PHONE_LENGTH 20: the buffer holds MAX_PHONE_LENGTH - 1 characters
MAX_PHONE_LENGTH == 2

(* ---- bounds of the model ---- *)
\* the entries one directory holds in the model (200 in the source)
MaxEntries == 2

\* #define TOTAL_NUMBERS 1000
TOTAL_NUMBERS == MaxEntries * MAX_DIRECTORIES
\* #define MAX_NUMBERS_PER_DIRECTORY (TOTAL_NUMBERS / MAX_DIRECTORIES)
MAX_NUMBERS_PER_DIRECTORY == TOTAL_NUMBERS \div MAX_DIRECTORIES

Min(a, b) == IF a < b THEN a ELSE b

\* all strings over alphabet of length 0 .. n
RECURSIVE StringsUpTo(_, _)
StringsUpTo(alphabet, n) ==
    IF n = 0 THEN {<<>>}
    ELSE LET shorter == StringsUpTo(alphabet, n - 1)
         IN  shorter \cup {Append(s, c) : s \in {t \in shorter : Len(t) = n - 1}, c \in alphabet}

\* the strings a caller may pass as speedDialCode and phoneNumber: every
\* length a buffer holds, and one character more
CodeInputs  == StringsUpTo({"a"}, MAX_CODE_LENGTH)
PhoneInputs == StringsUpTo({"1"}, MAX_PHONE_LENGTH)

DirIndex == 1 .. MAX_DIRECTORIES

\* snprintf(name, MAX_DIR_NAME_LENGTH, "Directory %d", i + 1)
DirectoryName(i) == "Directory " \o ToString(i)

\* the directory names a caller may pass: the configured ones and one that
\* strcmp matches with none of them (main passes "Directory 6"; here it is a
\* configured name in another case)
NameInputs == {DirectoryName(i) : i \in 1 .. MAX_DIRECTORIES} \cup {"directory 1"}

\* the null pointer; malloc'ed blocks have the addresses 1, 2, ...
NULL == 0
\* the null char pointer a function returns: a value no string equals
NoString == <<"NULL">>

\* strncpy(dst, src, n - 2): one character too few
StrNCopyShort(src, n) == SubSeq(src, 1, Min(Len(src), n - 2))

\* strncpy(dst, src, n - 1); dst[n - 1] = '\0'
StrNCopy(src, n) == SubSeq(src, 1, Min(Len(src), n - 1))

VARIABLES
    initialized,  \* manager.initialized
    directories,  \* manager.directories: [name, entries, currentCount, ptr]
    heap,         \* the blocks malloc has handed out and free has not taken back
    doubleFree,   \* free() was called on a block that was not allocated
    exited,       \* exit(EXIT_FAILURE) was called
    last,         \* the last call: operation, arguments, outcome, return value
    speedDialList, \* Spddia.c: SpeedDialEntry speedDialList[MAX_SPEED_DIALS]
    lastDial      \* Spddia.c: the last call, its arguments and return value

\* the state of Spddia.c, a program of its own
dialVars == <<speedDialList, lastDial>>

vars == <<initialized, directories, heap, doubleFree, exited, last, dialVars>>

(* ---- outcomes: the branch of the handler that returned ---- *)
Ok                == "Ok"
NotReady          == "NotReady"
AlreadyInitialized == "AlreadyInitialized"
PartitionNotFound == "PartitionNotFound"
PartitionFull     == "PartitionFull"
DuplicateCode     == "DuplicateCode"
CodeNotFound      == "CodeNotFound"
AllocFailed       == "AllocFailed"
NotInitialized    == "NotInitialized"

Call(op, dir, code, phone, res, ret) ==
    [op |-> op, dir |-> dir, code |-> code, phone |-> phone, res |-> res, ret |-> ret]

\* SpeedDialEntry
Entry(code, phone) == [speedDialCode |-> code, phoneNumber |-> phone]

(* ---- Spddia.c: constants and data ---- *)
\* #define MAX_SPEED_DIALS 10
MAX_SPEED_DIALS == 10
\* #define MAX_PHONE_NUMBER_LEN 15
MAX_PHONE_NUMBER_LEN == 15
\* char contactName[20]: sizeof(speedDialList[index].contactName)
CONTACT_NAME_SIZE == 20

\* a char pointer: NULL, or a pointer to the C string str (a TLA+ string here)
NullPtr == [null |-> TRUE, str |-> ""]
PtrTo(str) == [null |-> FALSE, str |-> str]

\* SpeedDialEntry of Spddia.c
DialEntry(number, name) == [phoneNumber |-> number, contactName |-> name]

\* SpeedDialEntry speedDialList[MAX_SPEED_DIALS] = {0};
ZeroDialEntry == DialEntry("", "")

DialCall(op, index, number, name, ret) ==
    [op |-> op, index |-> index, number |-> number, name |-> name, ret |-> ret]

\* the zero-initialised global: SpeedDialManager manager;
ZeroDirectory == [name |-> "", entries |-> <<>>, currentCount |-> 0, ptr |-> NULL]

Init ==
    /\ initialized = FALSE
    /\ directories = [i \in DirIndex |-> ZeroDirectory]
    /\ heap = {}
    /\ doubleFree = FALSE
    /\ exited = FALSE
    /\ last = Call("none", "", <<>>, <<>>, Ok, NoString)
    /\ speedDialList = [i \in 0 .. MAX_SPEED_DIALS - 1 |-> ZeroDialEntry]
    /\ lastDial = DialCall("none", 0, "", NullPtr, NullPtr)

\* the name with its first letter in upper case
CaseFold(directoryName) ==
    IF directoryName = "directory 1" THEN "Directory 1" ELSE directoryName

\* the "find the directory" loop comparing with strcasecmp
FindDirectoryIgnoreCase(dirs, directoryName) ==
    LET hits == {i \in DirIndex : dirs[i].name = CaseFold(directoryName)}
    IN  IF hits = {} THEN 0 ELSE CHOOSE i \in hits : \A j \in hits : i <= j

\* the "find the directory" loop setting dirIndex = 0 on every match
FindDirectoryAlwaysFirst(dirs, directoryName) ==
    LET hits == {i \in DirIndex : dirs[i].name = directoryName}
    IN  IF hits = {} THEN 0 ELSE 1

\* the "find the directory" loop: first index whose name matches, else 0
FindDirectory(dirs, directoryName) ==
    LET hits == {i \in DirIndex : dirs[i].name = directoryName}
    IN  IF hits = {} THEN 0 ELSE CHOOSE i \in hits : \A j \in hits : i <= j

\* the "find the entry" loop over 0 .. currentCount-1: first match, else 0
FindEntry(dir, speedDialCode) ==
    LET hits == {i \in 1 .. dir.currentCount :
                    i <= Len(dir.entries) /\ dir.entries[i].speedDialCode = speedDialCode}
    IN  IF hits = {} THEN 0 ELSE CHOOSE i \in hits : \A j \in hits : i <= j


(* ---- the allocator ---- *)
\* malloc: a block that is not allocated (the lowest free address)
Malloc(hp) == CHOOSE b \in 1 .. Cardinality(hp) + 1 :
                  b \notin hp /\ \A c \in 1 .. Cardinality(hp) + 1 : c \notin hp => b <= c

(* ---- freeSpeedDialManager ---- *)
\* the loop of lines 308-313 stopping one directory early
RECURSIVE FreeLoopSkipLast(_, _)
FreeLoopSkipLast(m, i) ==
    IF i >= MAX_DIRECTORIES THEN m
    ELSE IF m.directories[i].ptr # NULL
         THEN FreeLoopSkipLast([m EXCEPT
                  !.doubleFree = m.doubleFree \/ m.directories[i].ptr \notin m.heap,
                  !.heap = m.heap \ {m.directories[i].ptr},
                  !.directories[i].ptr = NULL,
                  !.directories[i].entries = <<>>], i + 1)
         ELSE FreeLoopSkipLast(m, i + 1)

\* the loop of lines 308-313 from directory i on, on the manager state m
RECURSIVE FreeLoop(_, _)
FreeLoop(m, i) ==
    IF i > MAX_DIRECTORIES THEN m
    ELSE IF m.directories[i].ptr # NULL
         THEN FreeLoop([m EXCEPT
                  !.doubleFree = m.doubleFree \/ m.directories[i].ptr \notin m.heap,
                  !.heap = m.heap \ {m.directories[i].ptr},
                  !.directories[i].ptr = NULL,
                  !.directories[i].entries = <<>>], i + 1)
         ELSE FreeLoop(m, i + 1)

\* the whole function on the manager state m; res tells the branch taken
FreeManager(m) ==
    IF ~m.initialized
    THEN [m EXCEPT !.res = NotInitialized]
    ELSE [FreeLoop(m, 1) EXCEPT !.initialized = FALSE, !.res = Ok]

Manager == [initialized |-> initialized, directories |-> directories,
            heap |-> heap, doubleFree |-> doubleFree, res |-> Ok]

FreeSpeedDialManager ==
    /\ ~exited
    /\ UNCHANGED dialVars
    /\ LET m == FreeManager(Manager)
       IN  /\ initialized' = m.initialized
           /\ directories' = m.directories
           /\ heap' = m.heap
           /\ doubleFree' = m.doubleFree
           /\ last' = Call("free", "", <<>>, <<>>, m.res, NoString)
    /\ UNCHANGED exited

(* ---- initializeSpeedDialManager ---- *)
\* the loop of lines 72-86 from directory i on; malloc returns NULL for
\* directory failAt (0: every malloc succeeds).  res = AllocFailed when the
\* loop was left through the failure branch.
\* First the loop without line 75 (currentCount = 0).
RECURSIVE InitLoopNoReset(_, _, _)
InitLoopNoReset(m, i, failAt) ==
    IF i > MAX_DIRECTORIES THEN m
    ELSE LET named == [m EXCEPT !.directories[i].name = DirectoryName(i)]
         IN  IF i = failAt
             THEN [named EXCEPT !.directories[i].ptr = NULL,
                                !.directories[i].entries = <<>>,
                                !.res = AllocFailed]
             ELSE InitLoopNoReset([named EXCEPT !.directories[i].ptr = Malloc(m.heap),
                                                !.directories[i].entries = <<>>,
                                                !.heap = m.heap \cup {Malloc(m.heap)}],
                                  i + 1, failAt)

\* the loop of lines 72-86 as written
RECURSIVE InitLoop(_, _, _)
InitLoop(m, i, failAt) ==
    IF i > MAX_DIRECTORIES THEN m
    ELSE LET named == [m EXCEPT !.directories[i].name = DirectoryName(i),
                                !.directories[i].currentCount = 0]
         IN  IF i = failAt
             THEN [named EXCEPT !.directories[i].ptr = NULL,
                                !.directories[i].entries = <<>>,
                                !.res = AllocFailed]
             ELSE InitLoop([named EXCEPT !.directories[i].ptr = Malloc(m.heap),
                                         !.directories[i].entries = <<>>,
                                         !.heap = m.heap \cup {Malloc(m.heap)}],
                           i + 1, failAt)

\* initializeSpeedDialManager without the check of lines 66-69
InitializeSpeedDialManagerUngated(failAt) ==
    /\ ~exited
    /\ UNCHANGED dialVars
    /\ LET m == InitLoop(Manager, 1, failAt)
       IN  IF m.res = AllocFailed
           THEN LET f == FreeManager(m)
                IN  /\ initialized' = f.initialized
                    /\ directories' = f.directories
                    /\ heap' = f.heap
                    /\ doubleFree' = f.doubleFree
                    /\ exited' = TRUE
                    /\ last' = Call("initialize", "", <<>>, <<>>, AllocFailed, NoString)
           ELSE /\ initialized' = TRUE
                /\ directories' = m.directories
                /\ heap' = m.heap
                /\ doubleFree' = m.doubleFree
                /\ UNCHANGED exited
                /\ last' = Call("initialize", "", <<>>, <<>>, Ok, NoString)

\* initializeSpeedDialManager returning after the cleanup instead of line 84
InitializeSpeedDialManagerNoExit(failAt) ==
    /\ ~exited
    /\ UNCHANGED dialVars
    /\ IF initialized
       THEN /\ last' = Call("initialize", "", <<>>, <<>>, AlreadyInitialized, NoString)
            /\ UNCHANGED <<initialized, directories, heap, doubleFree, exited>>
       ELSE LET m == InitLoop(Manager, 1, failAt)
            IN  IF m.res = AllocFailed
                THEN LET f == FreeManager(m)
                     IN  /\ initialized' = f.initialized
                         /\ directories' = f.directories
                         /\ heap' = f.heap
                         /\ doubleFree' = f.doubleFree
                         /\ UNCHANGED exited
                         /\ last' = Call("initialize", "", <<>>, <<>>, AllocFailed, NoString)
                ELSE /\ initialized' = TRUE
                     /\ directories' = m.directories
                     /\ heap' = m.heap
                     /\ doubleFree' = m.doubleFree
                     /\ UNCHANGED exited
                     /\ last' = Call("initialize", "", <<>>, <<>>, Ok, NoString)

InitializeSpeedDialManager(failAt) ==
    /\ ~exited
    /\ UNCHANGED dialVars
    /\ IF initialized
       THEN /\ last' = Call("initialize", "", <<>>, <<>>, AlreadyInitialized, NoString)
            /\ UNCHANGED <<initialized, directories, heap, doubleFree, exited>>
       ELSE LET m == InitLoop(Manager, 1, failAt)
            IN  IF m.res = AllocFailed
                THEN \* perror; freeSpeedDialManager(); exit(EXIT_FAILURE)
                     LET f == FreeManager(m)
                     IN  /\ initialized' = f.initialized
                         /\ directories' = f.directories
                         /\ heap' = f.heap
                         /\ doubleFree' = f.doubleFree
                         /\ exited' = TRUE
                         /\ last' = Call("initialize", "", <<>>, <<>>, AllocFailed, NoString)
                ELSE /\ initialized' = TRUE
                     /\ directories' = m.directories
                     /\ heap' = m.heap
                     /\ doubleFree' = m.doubleFree
                     /\ UNCHANGED exited
                     /\ last' = Call("initialize", "", <<>>, <<>>, Ok, NoString)

(* ---- addNumber ---- *)
\* lines 136-142: the entry written at index currentCount, and the count
AddEntryTo(dir, speedDialCode, phoneNumber) ==
    [dir EXCEPT
        !.entries = SubSeq(dir.entries, 1, dir.currentCount) \o
                    <<Entry(StrNCopy(speedDialCode, MAX_CODE_LENGTH),
                            StrNCopy(phoneNumber, MAX_PHONE_LENGTH))>>,
        !.currentCount = dir.currentCount + 1]

\* line 123 with > for >=
IsFullOffByOne(dir) == dir.currentCount > MAX_NUMBERS_PER_DIRECTORY

\* line 123 with the bound one too low
IsFullEarly(dir) == dir.currentCount >= MAX_NUMBERS_PER_DIRECTORY - 1

\* line 123
IsFull(dir) == dir.currentCount >= MAX_NUMBERS_PER_DIRECTORY

\* addNumber without the loop of lines 129-134
AddOutcomeNoDuplicateScan(dirs, directoryName, speedDialCode) ==
    LET d == FindDirectory(dirs, directoryName)
    IN  IF d = 0 THEN PartitionNotFound
        ELSE IF IsFull(dirs[d]) THEN PartitionFull
        ELSE Ok

\* addNumber with the loop of lines 129-134 before the check of line 123
AddOutcomeDuplicateFirst(dirs, directoryName, speedDialCode) ==
    LET d == FindDirectory(dirs, directoryName)
    IN  IF d = 0 THEN PartitionNotFound
        ELSE IF FindEntry(dirs[d], speedDialCode) # 0 THEN DuplicateCode
        ELSE IF IsFull(dirs[d]) THEN PartitionFull
        ELSE Ok

\* the outcome of addNumber on the directories dirs
AddOutcome(dirs, directoryName, speedDialCode) ==
    LET d == FindDirectory(dirs, directoryName)
    IN  IF d = 0 THEN PartitionNotFound
        ELSE IF IsFull(dirs[d]) THEN PartitionFull
        ELSE IF FindEntry(dirs[d], speedDialCode) # 0 THEN DuplicateCode
        ELSE Ok

AddNumber(directoryName, speedDialCode, phoneNumber) ==
    /\ ~exited
    /\ UNCHANGED dialVars
    /\ IF ~initialized
       THEN /\ last' = Call("add", directoryName, speedDialCode, phoneNumber, NotReady, FALSE)
            /\ UNCHANGED directories
       ELSE LET res == AddOutcome(directories, directoryName, speedDialCode)
                d   == FindDirectory(directories, directoryName)
            IN  /\ last' = Call("add", directoryName, speedDialCode, phoneNumber, res, res = Ok)
                /\ IF res = Ok
                   THEN directories' = [directories EXCEPT
                            ![d] = AddEntryTo(directories[d], speedDialCode, phoneNumber)]
                   ELSE UNCHANGED directories
    /\ UNCHANGED <<initialized, heap, doubleFree, exited>>

(* ---- getPhoneNumber ---- *)
\* the value returned on the directories dirs: the stored number, or NULL
GetPhoneNumberValue(dirs, directoryName, speedDialCode) ==
    LET d == FindDirectory(dirs, directoryName)
    IN  IF d = 0 THEN NoString
        ELSE LET e == FindEntry(dirs[d], speedDialCode)
             IN  IF e = 0 THEN NoString ELSE dirs[d].entries[e].phoneNumber

GetOutcome(dirs, directoryName, speedDialCode) ==
    LET d == FindDirectory(dirs, directoryName)
    IN  IF d = 0 THEN PartitionNotFound
        ELSE IF FindEntry(dirs[d], speedDialCode) = 0 THEN CodeNotFound
        ELSE Ok

GetPhoneNumber(directoryName, speedDialCode) ==
    /\ ~exited
    /\ UNCHANGED dialVars
    /\ IF ~initialized
       THEN last' = Call("get", directoryName, speedDialCode, <<>>, NotReady, NoString)
       ELSE last' = Call("get", directoryName, speedDialCode, <<>>,
                         GetOutcome(directories, directoryName, speedDialCode),
                         GetPhoneNumberValue(directories, directoryName, speedDialCode))
    /\ UNCHANGED <<initialized, directories, heap, doubleFree, exited>>

(* ---- removeNumber ---- *)
\* the loop of lines 236-238 started at entryIndex + 1
RECURSIVE ShiftLeftFromNext(_, _, _)
ShiftLeftFromNext(entries, i, count) ==
    IF i + 1 < count
    THEN ShiftLeftFromNext([entries EXCEPT ![i + 1] = entries[i + 2]], i + 1, count)
    ELSE entries

\* the loop of lines 236-238 from index i on: entries[i] = entries[i + 1]
RECURSIVE ShiftLeft(_, _, _)
ShiftLeft(entries, i, count) ==
    IF i < count
    THEN ShiftLeft([entries EXCEPT ![i] = entries[i + 1]], i + 1, count)
    ELSE entries

\* lines 236-239 without the shift: only currentCount--
RemoveEntryAtNoShift(dir, entryIndex) ==
    [dir EXCEPT
        !.entries = SubSeq(dir.entries, 1, dir.currentCount - 1),
        !.currentCount = dir.currentCount - 1]

\* lines 236-239: the shift, then currentCount--
RemoveEntryAt(dir, entryIndex) ==
    [dir EXCEPT
        !.entries = SubSeq(ShiftLeft(dir.entries, entryIndex, dir.currentCount),
                           1, dir.currentCount - 1),
        !.currentCount = dir.currentCount - 1]

RemoveOutcome(dirs, directoryName, speedDialCode) ==
    LET d == FindDirectory(dirs, directoryName)
    IN  IF d = 0 THEN PartitionNotFound
        ELSE IF FindEntry(dirs[d], speedDialCode) = 0 THEN CodeNotFound
        ELSE Ok

\* removeNumber without the check of lines 198-201
RemoveNumberUngated(directoryName, speedDialCode) ==
    /\ ~exited
    /\ UNCHANGED dialVars
    /\ LET res == RemoveOutcome(directories, directoryName, speedDialCode)
           d   == FindDirectory(directories, directoryName)
       IN  /\ last' = Call("remove", directoryName, speedDialCode, <<>>, res, res = Ok)
           /\ IF res = Ok
              THEN directories' = [directories EXCEPT
                       ![d] = RemoveEntryAt(directories[d],
                                            FindEntry(directories[d], speedDialCode))]
              ELSE UNCHANGED directories
    /\ UNCHANGED <<initialized, heap, doubleFree, exited>>

RemoveNumber(directoryName, speedDialCode) ==
    /\ ~exited
    /\ UNCHANGED dialVars
    /\ IF ~initialized
       THEN /\ last' = Call("remove", directoryName, speedDialCode, <<>>, NotReady, FALSE)
            /\ UNCHANGED directories
       ELSE LET res == RemoveOutcome(directories, directoryName, speedDialCode)
                d   == FindDirectory(directories, directoryName)
            IN  /\ last' = Call("remove", directoryName, speedDialCode, <<>>, res, res = Ok)
                /\ IF res = Ok
                   THEN directories' = [directories EXCEPT
                            ![d] = RemoveEntryAt(directories[d],
                                                 FindEntry(directories[d], speedDialCode))]
                   ELSE UNCHANGED directories
    /\ UNCHANGED <<initialized, heap, doubleFree, exited>>

(* ---- listNumbersInDirectory, listAllDirectoryNames ---- *)
\* the lines printed by lines 276-278, in order
ListedEntries(dir) == [i \in 1 .. dir.currentCount |-> dir.entries[i]]

\* the names printed by lines 292-294, in order
ListedNames(dirs) == [i \in DirIndex |-> dirs[i].name]

ListNumbersInDirectory(directoryName) ==
    /\ ~exited
    /\ UNCHANGED dialVars
    /\ IF ~initialized
       THEN last' = Call("list", directoryName, <<>>, <<>>, NotReady, NoString)
       ELSE IF FindDirectory(directories, directoryName) = 0
       THEN last' = Call("list", directoryName, <<>>, <<>>, PartitionNotFound, NoString)
       ELSE last' = Call("list", directoryName, <<>>, <<>>, Ok,
                         ListedEntries(directories[FindDirectory(directories, directoryName)]))
    /\ UNCHANGED <<initialized, directories, heap, doubleFree, exited>>

ListAllDirectoryNames ==
    /\ ~exited
    /\ UNCHANGED dialVars
    /\ IF ~initialized
       THEN last' = Call("names", "", <<>>, <<>>, NotReady, NoString)
       ELSE last' = Call("names", "", <<>>, <<>>, Ok, ListedNames(directories))
    /\ UNCHANGED <<initialized, directories, heap, doubleFree, exited>>

Next ==
    \/ \E failAt \in 0 .. MAX_DIRECTORIES : InitializeSpeedDialManager(failAt)
    \/ \E n \in NameInputs, c \in CodeInputs, p \in PhoneInputs : AddNumber(n, c, p)
    \/ \E n \in NameInputs, c \in CodeInputs : GetPhoneNumber(n, c)
    \/ \E n \in NameInputs, c \in CodeInputs : RemoveNumber(n, c)
    \/ \E n \in NameInputs : ListNumbersInDirectory(n)
    \/ ListAllDirectoryNames
    \/ FreeSpeedDialManager

Spec == Init /\ [][Next]_vars


(***************************************************************************)
(* The claims.                                                             *)
(***************************************************************************)
\* the directory a call named, 0 when no configured name matches
Target(call) == FindDirectory(directories, call.dir)

\* what a buffer of n bytes holds without loss
Fits(str, n) == Len(str) <= n - 1

\* a step that is a call of op (every handler records its call in last)
IsCall(op) == last'.op = op /\ ~exited

(* ---- C1 ---- *)
\* C1: in every reachable state the codes stored in one partition are
\* pairwise distinct, whatever the length of the codes the callers passed.
C1_CodesPairwiseDistinct ==
    \A d \in DirIndex :
        \A i, j \in 1 .. Len(directories[d].entries) :
            i # j => directories[d].entries[i].speedDialCode
                         # directories[d].entries[j].speedDialCode

(* ---- C2 ---- *)
\* C2: while the store is initialized every partition's count is between 0
\* and MAX_NUMBERS_PER_DIRECTORY, and the entries written fill exactly the
\* slots below the count, so no add has written outside the allocated array.
C2_CountWithinCapacity ==
    initialized =>
        \A d \in DirIndex :
            /\ 0 <= directories[d].currentCount
            /\ directories[d].currentCount <= MAX_NUMBERS_PER_DIRECTORY
            /\ Len(directories[d].entries) = directories[d].currentCount
            /\ directories[d].ptr \in heap

\* a successful add has just filled the last slot of a partition
C2_Witness ==
    /\ initialized
    /\ last.op = "add" /\ last.res = Ok
    /\ directories[Target(last)].currentCount = MAX_NUMBERS_PER_DIRECTORY

C4_DuplicateRejected ==
    [][\A d \in DirIndex :
          (/\ initialized /\ IsCall("add") /\ last'.dir = directories[d].name
           /\ directories[d].currentCount < MAX_NUMBERS_PER_DIRECTORY
           /\ FindEntry(directories[d], last'.code) # 0)
          => (last'.res = DuplicateCode /\ directories' = directories)
      ]_vars

\* a duplicate add was refused and the value it carried differs from the one kept
C4_Witness ==
    /\ initialized
    /\ last.op = "add" /\ last.res = DuplicateCode
    /\ GetPhoneNumberValue(directories, last.dir, last.code)
           # StrNCopy(last.phone, MAX_PHONE_LENGTH)

(* ---- C5 ---- *)
\* C5: after a successful add of a code and a value that fit their buffers,
\* a get of that code from that partition returns exactly the value.
C5_RoundTrip ==
    (/\ last.op = "add" /\ last.res = Ok
     /\ Fits(last.code, MAX_CODE_LENGTH) /\ Fits(last.phone, MAX_PHONE_LENGTH))
    => /\ GetOutcome(directories, last.dir, last.code) = Ok
       /\ GetPhoneNumberValue(directories, last.dir, last.code) = last.phone

\* such an add happened, into a partition that already held an entry
C5_Witness ==
    /\ last.op = "add" /\ last.res = Ok
    /\ Fits(last.code, MAX_CODE_LENGTH) /\ Fits(last.phone, MAX_PHONE_LENGTH)
    /\ Len(last.phone) > 0
    /\ directories[Target(last)].currentCount > 1


(* ---- C6 ---- *)
\* C6: an add of a code or value too long for its buffer stores nothing:
\* the entry a successful add has stored holds exactly the code and the
\* value the caller passed, never a truncation of them.
C6_NoSilentTruncation ==
    (last.op = "add" /\ last.res = Ok)
    => LET dir == directories[Target(last)]
       IN  dir.entries[dir.currentCount] = Entry(last.code, last.phone)

(* ---- C7 ---- *)
\* the sequence s without its element i
Without(s, i) == SubSeq(s, 1, i - 1) \o SubSeq(s, i + 1, Len(s))

C8_RemovedCodeIsGone ==
    (last.op = "remove" /\ last.res = Ok)
    => /\ RemoveOutcome(directories, last.dir, last.code) = CodeNotFound
       /\ GetOutcome(directories, last.dir, last.code) = CodeNotFound

\* the general part of C8 alone: a remove or a get of a code no entry of the
\* partition holds returns CodeNotFound, and the remove changes nothing
C8_AbsentCodeNotFound ==
    [][\A d \in DirIndex :
          (/\ initialized /\ (IsCall("remove") \/ IsCall("get"))
           /\ last'.dir = directories[d].name
           /\ \A i \in 1 .. directories[d].currentCount :
                  directories[d].entries[i].speedDialCode # last'.code)
          => (/\ last'.res = CodeNotFound
              /\ last'.ret = (IF last'.op = "get" THEN NoString ELSE FALSE)
              /\ directories' = directories)
      ]_vars

(* ---- C9 ---- *)
\* C9: while the store is not initialized, add, get, remove, list and the
\* listing of the names each fail with NotReady and change nothing.
C9_LifecycleGating ==
    [][(/\ ~initialized
        /\ IsCall("add") \/ IsCall("get") \/ IsCall("remove")
             \/ IsCall("list") \/ IsCall("names"))
       => (/\ last'.res = NotReady
           /\ UNCHANGED <<initialized, directories, heap, doubleFree, exited>>)
      ]_vars

\* a remove was refused after the teardown of a store that held entries
C9_Witness ==
    /\ ~initialized
    /\ last.op = "remove" /\ last.res = NotReady
    /\ \E d \in DirIndex : directories[d].currentCount > 0

(* ---- C10 ---- *)
\* the blocks the directories point to
Pointers(dirs) == {dirs[d].ptr : d \in DirIndex} \ {NULL}

\* C10: free is never called on a block that is not allocated; a teardown
\* of an initialized store releases the block of every partition, each once,
\* and leaves none allocated; a teardown of a store that is not initialized
\* fails with NotInitialized and releases nothing; and between a teardown
\* and the next initialize no block is allocated, while an initialized store
\* holds one allocated block for each partition.
C10_ReleasedExactlyOnce ==
    [][/\ ~doubleFree'
       /\ (IsCall("free") /\ initialized)
            => (/\ last'.res = Ok
                /\ Cardinality(Pointers(directories)) = MAX_DIRECTORIES
                /\ heap = Pointers(directories)
                /\ heap' = {}
                /\ Pointers(directories') = {}
                /\ ~initialized')
       /\ (IsCall("free") /\ ~initialized)
            => (/\ last'.res = NotInitialized
                /\ UNCHANGED <<initialized, directories, heap, doubleFree>>)
       /\ (~initialized' /\ ~exited') => heap' = {}
       /\ initialized'
            => (/\ heap' = Pointers(directories')
                /\ Cardinality(heap') = MAX_DIRECTORIES)
      ]_vars

\* a second teardown in a row was refused
C10_Witness ==
    /\ last.op = "free" /\ last.res = NotInitialized
    /\ \E d \in DirIndex : directories[d].name # ""
    /\ heap = {}


(* ---- C11 ---- *)
\* C11: an initialize of a store that is initialized takes the
\* AlreadyInitialized branch and changes nothing: no count or entry is
\* reset, no pointer replaced and no block allocated.
C11_SecondInitializeRejected ==
    [][(IsCall("initialize") /\ initialized)
       => (/\ last'.res = AlreadyInitialized
           /\ UNCHANGED <<initialized, directories, heap, doubleFree, exited>>)
      ]_vars

\* an initialize was refused on a store that holds entries
C11_Witness ==
    /\ initialized
    /\ last.op = "initialize" /\ last.res = AlreadyInitialized
    /\ \E d \in DirIndex : directories[d].currentCount > 0

(* ---- C12 ---- *)
\* C12: right after every successful initialize the store is initialized
\* and has MAX_DIRECTORIES partitions with their configured names and no
\* entries: every listing is empty and a get of any code finds nothing,
\* whatever the store held before the teardown that preceded it.
C12_InitializeStartsEmpty ==
    (last.op = "initialize" /\ last.res = Ok)
    => /\ initialized
       /\ DOMAIN directories = 1 .. MAX_DIRECTORIES
       /\ \A d \in DirIndex :
            /\ directories[d].name = DirectoryName(d)
            /\ directories[d].currentCount = 0
            /\ ListedEntries(directories[d]) = <<>>
            /\ \A c \in CodeInputs :
                 /\ GetOutcome(directories, DirectoryName(d), c) = CodeNotFound
                 /\ GetPhoneNumberValue(directories, DirectoryName(d), c) = NoString

\* a successful initialize has just returned
C12_Witness ==
    /\ last.op = "initialize" /\ last.res = Ok
    /\ initialized
    /\ \A d \in DirIndex : directories[d].currentCount = 0 /\ directories[d].ptr \in heap

Stores(dir, code) ==
    \E i \in 1 .. dir.currentCount : dir.entries[i].speedDialCode = code

(* ---- C14 ---- *)
\* C14: an add that names no configured partition fails with
\* PartitionNotFound, and an add of a code that a full partition already
\* holds fails with PartitionFull, not DuplicateCode.
C14_ErrorPrecedence ==
    [][(IsCall("add") /\ initialized)
       => LET d == FindDirectory(directories, last'.dir)
          IN  /\ (\A q \in DirIndex : directories[q].name # last'.dir)
                   => last'.res = PartitionNotFound
              /\ (/\ d # 0
                  /\ directories[d].currentCount = MAX_NUMBERS_PER_DIRECTORY
                  /\ Stores(directories[d], last'.code))
                   => last'.res = PartitionFull
      ]_vars

\* an add of a stored code into a full partition was refused as full
C14_Witness ==
    /\ initialized
    /\ last.op = "add" /\ last.res = PartitionFull
    /\ Stores(directories[Target(last)], last.code)

(* ---- C15 ---- *)
\* C15: on an initialized store an add, get, remove or list whose name
\* equals no configured name, character for character, fails with
\* PartitionNotFound and leaves every partition as it was.
C15_UnknownPartitionRejected ==
    [][(/\ initialized
        /\ IsCall("add") \/ IsCall("get") \/ IsCall("remove") \/ IsCall("list")
        /\ \A d \in DirIndex : DirectoryName(d) # last'.dir)
       => (/\ last'.res = PartitionNotFound
           /\ UNCHANGED <<initialized, directories, heap, doubleFree, exited>>)
      ]_vars

\* an add under a configured name in another case was refused
C15_Witness ==
    /\ initialized
    /\ last.op = "add" /\ last.dir = "directory 1" /\ last.res = PartitionNotFound
    /\ directories[1].name = "Directory 1"

(* ---- C16 ---- *)
\* C16: a successful add appends: the list of the partition after the call
\* is the list before the call followed by the (code, value) the caller
\* passed as its last element.
C16_AddAppendsWhatWasPassed ==
    [][\A d \in DirIndex :
          (initialized /\ IsCall("add") /\ last'.res = Ok
               /\ last'.dir = directories[d].name)
          => ListedEntries(directories'[d])
                 = Append(ListedEntries(directories[d]), Entry(last'.code, last'.phone))
      ]_vars

\* the part of C16 about the entries already there: a successful add leaves
\* every existing entry at its position and puts one entry, the copy that
\* lines 137-140 make of the arguments, after them
C16_ExistingEntriesKept ==
    [][\A d \in DirIndex :
          (initialized /\ IsCall("add") /\ last'.res = Ok
               /\ last'.dir = directories[d].name)
          => /\ directories'[d].currentCount = directories[d].currentCount + 1
             /\ \A i \in 1 .. directories[d].currentCount :
                    ListedEntries(directories'[d])[i] = ListedEntries(directories[d])[i]
             /\ ListedEntries(directories'[d])[directories'[d].currentCount]
                    = Entry(StrNCopy(last'.code, MAX_CODE_LENGTH),
                            StrNCopy(last'.phone, MAX_PHONE_LENGTH))
      ]_vars

(* ---- C18 ---- *)
\* C18: an add or a remove that names partition P, successful or not,
\* leaves every other partition as it was; a get from a partition that does
\* not hold the code fails with CodeNotFound whatever the other partitions
\* hold.
C18_PartitionIsolation ==
    [][\A d \in DirIndex :
          (initialized /\ last'.dir = directories[d].name)
          => /\ (IsCall("add") \/ IsCall("remove"))
                  => \A q \in DirIndex \ {d} : directories'[q] = directories[q]
             /\ (IsCall("get") /\ ~Stores(directories[d], last'.code))
                  => (last'.res = CodeNotFound /\ last'.ret = NoString)
      ]_vars

\* one code is stored in two partitions with different values, the second
\* just added
C18_Witness ==
    /\ initialized
    /\ last.op = "add" /\ last.res = Ok
    /\ \E p, q \in DirIndex :
          /\ p # q
          /\ \E i \in 1 .. directories[p].currentCount,
                j \in 1 .. directories[q].currentCount :
                /\ directories[p].entries[i].speedDialCode
                       = directories[q].entries[j].speedDialCode
                /\ directories[p].entries[i].phoneNumber
                       # directories[q].entries[j].phoneNumber

(* ---- C19 ---- *)
\* C19: when initialize fails to allocate the storage of a partition, the
\* blocks it has allocated for the partitions before it are freed before
\* the process exits: at exit no block is allocated.
C19_NoBlockLeftAtExit == exited => heap = {}


(* ---- C20 ---- *)
\* the codes and numbers that fit their buffers
CodesWithin  == {c \in CodeInputs : Fits(c, MAX_CODE_LENGTH)}
PhonesWithin == {p \in PhoneInputs : Fits(p, MAX_PHONE_LENGTH)}

\* the calls of a caller that passes only codes and numbers within the limits
NextWithin ==
    \/ \E failAt \in 0 .. MAX_DIRECTORIES : InitializeSpeedDialManager(failAt)
    \/ \E n \in NameInputs, c \in CodesWithin, p \in PhonesWithin : AddNumber(n, c, p)
    \/ \E n \in NameInputs, c \in CodesWithin : GetPhoneNumber(n, c)
    \/ \E n \in NameInputs, c \in CodesWithin : RemoveNumber(n, c)
    \/ \E n \in NameInputs : ListNumbersInDirectory(n)
    \/ ListAllDirectoryNames
    \/ FreeSpeedDialManager

SpecWithin == Init /\ [][NextWithin]_vars

\* what a get of code c from partition d returns in the state dirs
Lookup(dirs, d, c) == GetPhoneNumberValue(dirs, DirectoryName(d), c)

\* C20: with codes and values within the limits the store behaves as one
\* map per partition.  A get returns the value the map holds for the code
\* and fails with CodeNotFound exactly when it holds none; a successful
\* add(P, code, v) binds code to v in P and a successful remove(P, code)
\* unbinds it; and these two change the binding of no other code and no
\* other partition, while every other call on the initialized store (a
\* failed add or remove, a get, a listing) changes no binding at all.
C20_MapRefinement ==
    [][(initialized /\ initialized')
       => \A d \in DirIndex, c \in CodesWithin :
            LET hit     == last'.dir = DirectoryName(d) /\ last'.code = c
                added   == IsCall("add") /\ last'.res = Ok /\ hit
                removed == IsCall("remove") /\ last'.res = Ok /\ hit
            IN  /\ added => Lookup(directories', d, c) = last'.phone
                /\ removed => Lookup(directories', d, c) = NoString
                /\ (~added /\ ~removed)
                     => Lookup(directories', d, c) = Lookup(directories, d, c)
                /\ (IsCall("get") /\ hit)
                     => /\ last'.ret = Lookup(directories, d, c)
                        /\ (last'.res = CodeNotFound) <=> (Lookup(directories, d, c) = NoString)
                        /\ (last'.res = Ok) <=> (Lookup(directories, d, c) # NoString)
      ]_vars

\* a remove succeeded and the other code of the partition still has its value
C20_Witness ==
    /\ initialized
    /\ last.op = "remove" /\ last.res = Ok
    /\ Lookup(directories, Target(last), last.code) = NoString
    /\ \E c \in CodesWithin :
          /\ c # last.code
          /\ Lookup(directories, Target(last), c) \in PhonesWithin \ {<<>>}


(***************************************************************************)
(* Spddia.c: the single-array variant.                                     *)
(***************************************************************************)
\* the indices, numbers and names a caller passes: main's (5, "9998887777",
\* "Friend"), the ends of the array and one index on each side of it, the
\* empty number, the longest number that fits and the shortest that does
\* not, no name, and a name that does not fit
DialIndexInputs  == {0 - 1, 0, 5, MAX_SPEED_DIALS}
DialNumberInputs == {"", "9998887777", "12345678901234", "123456789012345"}
DialNameInputs   == {NullPtr, PtrTo("Friend"), PtrTo("Bartholomew Fitzroy-Somerset")}

\* lines 47 and 73
ValidIndex(index) == ~(index < 0 \/ index >= MAX_SPEED_DIALS)

\* line 51
NumberTooLong(number) == Len(number) >= MAX_PHONE_NUMBER_LEN

\* lines 57-61: the contact name stored
StoredName(name) ==
    IF ~name.null /\ Len(name.str) < CONTACT_NAME_SIZE THEN name.str ELSE ""

\* initializeSpeedDial
InitializeSpeedDial ==
    /\ speedDialList' = [speedDialList EXCEPT
            ![0] = DialEntry("9876543210", "Emergency"),
            ![1] = DialEntry("1234567890", "Home"),
            ![2] = DialEntry("5551234567", "Work")]
    /\ lastDial' = DialCall("initialize", 0, "", NullPtr, NullPtr)
    /\ UNCHANGED <<initialized, directories, heap, doubleFree, exited, last>>

\* the return value of assignSpeedDial
AssignResult(index, number) ==
    IF ~ValidIndex(index) THEN 0 - 1
    ELSE IF NumberTooLong(number) THEN 0 - 1
    ELSE 0

\* assignSpeedDial
AssignSpeedDial(index, number, name) ==
    /\ IF AssignResult(index, number) = 0
       THEN speedDialList' = [speedDialList EXCEPT
                                 ![index] = DialEntry(number, StoredName(name))]
       ELSE UNCHANGED speedDialList
    /\ lastDial' = DialCall("assign", index, number, name, AssignResult(index, number))
    /\ UNCHANGED <<initialized, directories, heap, doubleFree, exited, last>>

\* the pointer getSpeedDialNumber returns on the list
GetSpeedDialNumberValue(list, index) ==
    IF ~ValidIndex(index) THEN NullPtr
    ELSE IF list[index].phoneNumber = "" THEN NullPtr
    ELSE PtrTo(list[index].phoneNumber)

\* getSpeedDialNumber
GetSpeedDialNumber(index) ==
    /\ lastDial' = DialCall("get", index, "", NullPtr,
                            GetSpeedDialNumberValue(speedDialList, index))
    /\ UNCHANGED <<initialized, directories, heap, doubleFree, exited, last, speedDialList>>

\* dialSpeedDial: the number it would dial, or NULL when it cannot
DialSpeedDial(index) ==
    /\ lastDial' = DialCall("dial", index, "", NullPtr,
                            GetSpeedDialNumberValue(speedDialList, index))
    /\ UNCHANGED <<initialized, directories, heap, doubleFree, exited, last, speedDialList>>

NextDial ==
    \/ InitializeSpeedDial
    \/ \E i \in DialIndexInputs, n \in DialNumberInputs, c \in DialNameInputs :
          AssignSpeedDial(i, n, c)
    \/ \E i \in DialIndexInputs : GetSpeedDialNumber(i)
    \/ \E i \in DialIndexInputs : DialSpeedDial(i)

SpecDial == Init /\ [][NextDial]_vars

(* ---- C17 ---- *)
\* C17: when assignSpeedDial(index, number, name) returns 0, a get of that
\* index returns number, not NULL, and keeps doing so until the next
\* assignment to that index; when it returns -1 the list is unchanged.
C17_AssignThenGet ==
    [][/\ (lastDial'.op = "assign" /\ lastDial'.ret = 0)
            => GetSpeedDialNumberValue(speedDialList', lastDial'.index)
                   = PtrTo(lastDial'.number)
       /\ (lastDial'.op = "assign" /\ lastDial'.ret = 0 - 1)
            => speedDialList' = speedDialList
       /\ \A i \in 0 .. MAX_SPEED_DIALS - 1 :
            (/\ lastDial'.op # "initialize"
             /\ ~(lastDial'.op = "assign" /\ lastDial'.ret = 0 /\ lastDial'.index = i))
            => speedDialList'[i] = speedDialList[i]
      ]_vars

\* C17 for numbers that are not empty: the same, with the get after a
\* successful assignment of the empty number left out
C17_NonEmptyAssignThenGet ==
    [][/\ (lastDial'.op = "assign" /\ lastDial'.ret = 0 /\ lastDial'.number # "")
            => GetSpeedDialNumberValue(speedDialList', lastDial'.index)
                   = PtrTo(lastDial'.number)
       /\ (lastDial'.op = "assign" /\ lastDial'.ret = 0 - 1)
            => speedDialList' = speedDialList
       /\ \A i \in 0 .. MAX_SPEED_DIALS - 1 :
            (/\ lastDial'.op # "initialize"
             /\ ~(lastDial'.op = "assign" /\ lastDial'.ret = 0 /\ lastDial'.index = i))
            => speedDialList'[i] = speedDialList[i]
      ]_vars

====
